---- MODULE Spec2Model ----
(***************************************************************************)
(* Model of search.py: the per-site search adapters (count / search with   *)
(* pagination and caching) and the adapter selection of the script's       *)
(* __main__ block.  The remote sites are fixed, deterministic result       *)
(* lists (variable site); a Result is identified by the record it was      *)
(* built from, <<database, keyword, index>>.                               *)
(***************************************************************************)
EXTENDS Integers, Sequences, FiniteSets, TLC

VARIABLES
    script,             \* position of the __main__ block ("lib": adapter used as a library)
    argv,               \* [source_name, keyword] given to the script
    source,             \* class of the constructed adapter, "none" before construction
    site,               \* remote databases: site[db][keyword] = number of records held
    pc,                 \* position inside the adapter: "idle", "loop" (search's while), "raised"
    cached_first_soup,  \* self._cached_first_soup (None or a parsed page)
    cached_ids,         \* RCSBSource.cached_ids (dict keyword -> id list)
    op,                 \* last method called: "none", "count", "search"
    kw,                 \* its keyword
    rng,                \* its range argument [start, stop]
    offset,             \* search's local offset
    results,            \* search's local results (its return value once pc = "idle")
    ret,                \* count's return value
    nfetch,             \* network requests issued by the last call
    iters,              \* search_oneshot calls made by the last search
    req,                \* last search_oneshot call: [start, fetched, page], NoReq if none
    seen,               \* value the latest count(k) returned, per keyword (NoValue if never)
    prevCount,          \* seen[kw] as it was before the last count call
    idFetches           \* RCSBSource: full-id-list POSTs issued, per keyword

vars == <<script, argv, source, site, pc, cached_first_soup, cached_ids, op, kw,
          rng, offset, results, ret, nfetch, iters, req, seen, prevCount, idFetches>>

----------------------------------------------------------------------------
(* Bounds of the model *)

MaxPages == 1      \* full pages a page-served result list may hold
MaxExtra == 2      \* records beyond the last full page
MaxIds == 3        \* length of an RCSB id list

(* Program constants *)

HumanGeneStep == 10
UniProtStep == 25
TaxonomyStep == 25
ChunkSize == 10

\* Python's None where a parsed page is expected
None == [kw |-> "None", rows |-> <<>>, container |-> FALSE, total |-> 0]
NoValue == 0 - 1
NoReq == [start |-> NoValue, fetched |-> FALSE, page |-> None]

Keywords == {"k1", "k2"}

Min(a, b) == IF a < b THEN a ELSE b
Max(a, b) == IF a > b THEN a ELSE b

(* Python sequence operations *)

\* s[:n] for n >= 0
Take(s, n) == SubSeq(s, 1, Min(n, Len(s)))

\* s[a:b] for 0 <= a, 0 <= b
PySlice(s, a, b) == SubSeq(s, Min(a, Len(s)) + 1, Min(b, Len(s)))

\* s.startswith(p)
StartsWith(s, p) == Len(p) <= Len(s) /\ SubSeq(s, 1, Len(p)) = p

----------------------------------------------------------------------------
(* The adapters *)

PageSources == {"HumanGeneSource", "UniProtSource", "TaxonomySource"}
GeoSources == {"GeneExpressionSourceProfiles", "GeneExpressionSourceDatasets"}
Sources == PageSources \cup GeoSources \cup {"RCSBSource", "iGEMPartSource"}

Dbs == {"ghr", "rcsb", "uniprot", "taxonomy", "gds", "geoprofiles"}

\* the local variable step of the three search loops
StepOf(src) ==
    CASE src = "HumanGeneSource" -> HumanGeneStep
      [] src = "UniProtSource" -> UniProtStep
      [] src = "TaxonomySource" -> TaxonomyStep

\* the site a page-fetching adapter or RCSBSource queries
DbOf(src) ==
    CASE src = "HumanGeneSource" -> "ghr"
      [] src = "UniProtSource" -> "uniprot"
      [] src = "TaxonomySource" -> "taxonomy"
      [] src = "RCSBSource" -> "rcsb"

\* the database get_uid / get_info (search) of a gene-expression adapter query
SearchDb(src) ==
    IF src = "GeneExpressionSourceProfiles" THEN "geoprofiles" ELSE "gds"

\* the database count of a gene-expression adapter queries
CountDb(src) ==
    IF src = "GeneExpressionSourceProfiles" THEN "gds" ELSE "geoprofiles"

----------------------------------------------------------------------------
(* The remote sites *)

\* the relevance-ordered records a database holds for a keyword
Records(db, k) == [i \in 1..site[db][k] |-> <<db, k, i - 1>>]

\* the page of n records a site serves from offset start; a page without rows has
\* no results container, and every page reports the total the site holds
SitePage(db, k, start, n) ==
    LET rows == PySlice(Records(db, k), start, start + n)
    IN  [kw |-> k, rows |-> rows, container |-> rows # <<>>, total |-> site[db][k]]

\* totals and range ends that fall on, just after and between page boundaries
PageTotals(step) == {p * step + r : p \in 0..MaxPages, r \in 0..MaxExtra}

\* totals and range ends around the boundaries of get_info's uid groups
GeoTotals == {c * ChunkSize + r : c \in 0..MaxPages, r \in 0..1}

Ranges(ends) == {[start |-> a, stop |-> b] : a \in ends, b \in ends} \ {r \in [start : ends, stop : ends] : r.start > r.stop}

NoSite == [db \in Dbs |-> [k \in Keywords |-> 0]]

OneDbSite(db, t1, t2) == [NoSite EXCEPT ![db] = [k \in Keywords |-> IF k = "k1" THEN t1 ELSE t2]]

\* the sites an adapter is run against
SitesFor(src) ==
    CASE src \in PageSources ->
            {OneDbSite(DbOf(src), t, u) : t \in PageTotals(StepOf(src)), u \in {0, StepOf(src) + 1}}
      [] src = "RCSBSource" ->
            {OneDbSite("rcsb", t, u) : t \in 0..MaxIds, u \in 0..MaxIds}
      [] src \in GeoSources ->
            {[OneDbSite("gds", g, p) EXCEPT !["geoprofiles"] = [k \in Keywords |-> IF k = "k1" THEN p ELSE g]] :
                g \in GeoTotals, p \in GeoTotals}
      [] OTHER -> {NoSite}

\* the range arguments tried on an adapter
RangesFor(src) ==
    CASE src \in PageSources -> Ranges(PageTotals(StepOf(src)))
      [] src = "RCSBSource" -> Ranges(0..(MaxIds + 1))
      [] OTHER -> Ranges(GeoTotals)

----------------------------------------------------------------------------
(* HumanGeneSource, UniProtSource, TaxonomySource *)

\* soupize / scrapy: one GET, the page of step records from offset start
Soupize(k, start) == SitePage(DbOf(source), k, start, StepOf(source))

\* search_oneshot, first part: the page consulted (fetched is what the GET, if issued, returns)
OneshotSoup(start, fetched) ==
    IF start = 0 /\ cached_first_soup # None
    THEN [soup |-> cached_first_soup, fetched |-> FALSE]
    ELSE [soup |-> fetched, fetched |-> TRUE]

\* search_oneshot, second part: no results container gives [], else one Result per row
OneshotRows(soup) == IF ~soup.container THEN <<>> ELSE soup.rows

\* count, given the page its GET returns: cache it and return the total it reports
CountWith(k, soup) ==
    /\ pc = "idle" /\ source \in PageSources
    /\ cached_first_soup' = soup
    /\ ret' = soup.total
    /\ op' = "count" /\ kw' = k
    /\ nfetch' = 1
    /\ prevCount' = seen[k]
    /\ seen' = [seen EXCEPT ![k] = ret']
    /\ rng' = [start |-> 0, stop |-> 0] /\ offset' = 0 /\ results' = <<>>
    /\ iters' = 0 /\ req' = NoReq
    /\ UNCHANGED <<argv, source, site, pc, cached_ids, idFetches>>

PageCount(k) == CountWith(k, Soupize(k, 0))

\* search, up to the while loop
PageSearchCall(k, r) ==
    /\ pc = "idle" /\ source \in PageSources
    /\ op' = "search" /\ kw' = k /\ rng' = r
    /\ results' = <<>> /\ offset' = r.start
    /\ pc' = "loop"
    /\ nfetch' = 0 /\ iters' = 0 /\ req' = NoReq
    /\ ret' = NoValue /\ prevCount' = NoValue
    /\ UNCHANGED <<argv, source, site, cached_first_soup, cached_ids, seen, idFetches>>

\* LoopBody without the trim to rng.stop: results.extend(oneshot)
LoopBodyNoTrim(oneshot, step) ==
    /\ results' = results \o oneshot
    /\ IF Len(oneshot) < step
       THEN pc' = "idle" /\ offset' = offset
       ELSE pc' = "loop" /\ offset' = offset + Len(oneshot)

\* LoopBody without the break on a short page
LoopBodyNoBreak(oneshot, step) ==
    /\ results' = results \o Take(oneshot, Min(rng.stop - offset, step))
    /\ pc' = "loop" /\ offset' = offset + Len(oneshot)

\* the body of the while loop, given what search_oneshot returned
LoopBody(oneshot, step) ==
    /\ results' = results \o Take(oneshot, Min(rng.stop - offset, step))
    /\ IF Len(oneshot) < step
       THEN pc' = "idle" /\ offset' = offset
       ELSE pc' = "loop" /\ offset' = offset + Len(oneshot)

\* one iteration of search's while loop, given the page a GET at offset returns
IterWith(fetched) ==
    /\ pc = "loop" /\ offset < rng.stop
    /\ LET got == OneshotSoup(offset, fetched)
       IN  /\ LoopBody(OneshotRows(got.soup), StepOf(source))
           /\ nfetch' = nfetch + (IF got.fetched THEN 1 ELSE 0)
           /\ req' = [start |-> offset, fetched |-> got.fetched, page |-> got.soup]
    /\ iters' = iters + 1
    /\ UNCHANGED <<argv, source, site, cached_first_soup, cached_ids, op, kw, rng,
                   ret, seen, prevCount, idFetches>>

PageSearchIter == IterWith(Soupize(kw, offset))

\* the while condition fails: return results
PageSearchExit ==
    /\ pc = "loop" /\ ~(offset < rng.stop)
    /\ pc' = "idle"
    /\ UNCHANGED <<argv, source, site, cached_first_soup, cached_ids, op, kw, rng, offset,
                   results, ret, nfetch, iters, req, seen, prevCount, idFetches>>

----------------------------------------------------------------------------
(* RCSBSource *)

\* query_all without the look into cached_ids: every call POSTs
query_all_uncached(k) ==
    LET pdbids == Records("rcsb", k)
    IN  [pdbids |-> pdbids,
         cache |-> [x \in DOMAIN cached_ids \cup {k} |-> IF x = k THEN pdbids ELSE cached_ids[x]],
         posts |-> 1]

\* query_all: the cached id list, or one POST whose answer is cached
query_all(k) ==
    IF k \in DOMAIN cached_ids
    THEN [pdbids |-> cached_ids[k], cache |-> cached_ids, posts |-> 0]
    ELSE LET pdbids == Records("rcsb", k)
         IN  [pdbids |-> pdbids,
              cache |-> [x \in DOMAIN cached_ids \cup {k} |-> IF x = k THEN pdbids ELSE cached_ids[x]],
              posts |-> 1]

\* the customReport rows the site returns for the ids asked, one title per id
CustomReport(pdbids) == [i \in 1..Len(pdbids) |-> <<"title", pdbids[i]>>]

\* zip(pdbids, titles) turned into Results
ZipResults(pdbids, titles) == [i \in 1..Min(Len(pdbids), Len(titles)) |-> pdbids[i]]

RCSBCount(k) ==
    /\ pc = "idle" /\ source = "RCSBSource"
    /\ LET q == query_all(k)
       IN  /\ cached_ids' = q.cache
           /\ ret' = Len(q.pdbids)
           /\ nfetch' = q.posts
           /\ idFetches' = [idFetches EXCEPT ![k] = @ + q.posts]
    /\ op' = "count" /\ kw' = k
    /\ prevCount' = seen[k]
    /\ seen' = [seen EXCEPT ![k] = ret']
    /\ rng' = [start |-> 0, stop |-> 0] /\ offset' = 0 /\ results' = <<>>
    /\ iters' = 0 /\ req' = NoReq
    /\ UNCHANGED <<argv, source, site, pc, cached_first_soup>>

RCSBSearch(k, r) ==
    /\ pc = "idle" /\ source = "RCSBSource"
    /\ LET q == query_all(k)
           pdbids == PySlice(q.pdbids, r.start, r.stop)
       IN  /\ cached_ids' = q.cache
           /\ results' = ZipResults(pdbids, CustomReport(pdbids))
           /\ nfetch' = q.posts + 1
           /\ idFetches' = [idFetches EXCEPT ![k] = @ + q.posts]
    /\ op' = "search" /\ kw' = k /\ rng' = r
    /\ offset' = 0 /\ ret' = NoValue /\ prevCount' = NoValue
    /\ iters' = 0 /\ req' = NoReq
    /\ UNCHANGED <<argv, source, site, pc, cached_first_soup, seen>>

----------------------------------------------------------------------------
(* GeneExpressionSourceProfiles, GeneExpressionSourceDatasets *)

\* get_uid: esearch for the count, then esearch with retmax = min(end, count)
get_uid(k, end) ==
    LET count == site[SearchDb(source)][k]
        retmax == IF end > count THEN count ELSE end
    IN  Take(Records(SearchDb(source), k), retmax)

\* the uid strings of get_info: consecutive groups of at most ChunkSize uids
RECURSIVE Chunks(_)
Chunks(uid) ==
    IF uid = <<>> THEN <<>>
    ELSE <<Take(uid, ChunkSize)>> \o Chunks(SubSeq(uid, Min(ChunkSize, Len(uid)) + 1, Len(uid)))

\* the Results of get_info's second loop: per esummary answer, its first ChunkSize documents
RECURSIVE Summaries(_)
Summaries(uid_s) ==
    IF uid_s = <<>> THEN <<>>
    ELSE Take(Head(uid_s), ChunkSize) \o Summaries(Tail(uid_s))

get_info(k, end) ==
    LET uid == get_uid(k, end)
    IN  IF uid = <<>> THEN <<>> ELSE Summaries(Chunks(uid))

GeoCount(k) ==
    /\ pc = "idle" /\ source \in GeoSources
    /\ ret' = site[CountDb(source)][k]
    /\ nfetch' = 1
    /\ op' = "count" /\ kw' = k
    /\ prevCount' = seen[k]
    /\ seen' = [seen EXCEPT ![k] = ret']
    /\ rng' = [start |-> 0, stop |-> 0] /\ offset' = 0 /\ results' = <<>>
    /\ iters' = 0 /\ req' = NoReq
    /\ UNCHANGED <<argv, source, site, pc, cached_first_soup, cached_ids, idFetches>>

GeoSearch(k, r) ==
    /\ pc = "idle" /\ source \in GeoSources
    /\ results' = get_info(k, r.stop)
    /\ nfetch' = 2 + Len(Chunks(get_uid(k, r.stop)))
    /\ op' = "search" /\ kw' = k /\ rng' = r
    /\ offset' = 0 /\ ret' = NoValue /\ prevCount' = NoValue
    /\ iters' = 0 /\ req' = NoReq
    /\ UNCHANGED <<argv, source, site, pc, cached_first_soup, cached_ids, seen, idFetches>>

----------------------------------------------------------------------------
(* iGEMPartSource: count and search are the base class's, which raise *)

NotImplemented(o, k) ==
    /\ pc = "idle" /\ source = "iGEMPartSource"
    /\ pc' = "raised"
    /\ op' = o /\ kw' = k
    /\ UNCHANGED <<argv, source, site, cached_first_soup, cached_ids, rng, offset, results,
                   ret, nfetch, iters, req, seen, prevCount, idFetches>>

----------------------------------------------------------------------------
(* An adapter used as a library: any sequence of count and search calls *)

\* the adapter's fields after __init__, with nothing called yet
Fresh ==
    /\ pc = "idle"
    /\ cached_first_soup = None
    /\ cached_ids = <<>>
    /\ op = "none" /\ kw = "k1" /\ rng = [start |-> 0, stop |-> 0]
    /\ offset = 0 /\ results = <<>> /\ ret = NoValue
    /\ nfetch = 0 /\ iters = 0 /\ req = NoReq
    /\ seen = [k \in Keywords |-> NoValue] /\ prevCount = NoValue
    /\ idFetches = [k \in Keywords |-> 0]

Init ==
    /\ script = "lib"
    /\ argv = [source_name |-> <<>>, keyword |-> "k1"]
    /\ source \in Sources
    /\ site \in SitesFor(source)
    /\ Fresh

Count ==
    /\ script = "lib" /\ UNCHANGED script
    /\ \E k \in Keywords : PageCount(k) \/ RCSBCount(k) \/ GeoCount(k) \/ NotImplemented("count", k)

Search ==
    /\ script = "lib" /\ UNCHANGED script
    /\ \E k \in Keywords : \E r \in RangesFor(source) :
          PageSearchCall(k, r) \/ RCSBSearch(k, r) \/ GeoSearch(k, r) \/ NotImplemented("search", k)

SearchIter == script = "lib" /\ UNCHANGED script /\ PageSearchIter

SearchExit == script = "lib" /\ UNCHANGED script /\ PageSearchExit

Next == Count \/ Search \/ SearchIter \/ SearchExit

Spec == Init /\ [][Next]_vars

----------------------------------------------------------------------------
(* The script: python search.py <source_name> <keyword> *)

\* mapping, in the order its items() are iterated (the order of the dict literal)
Mapping ==
    << [key |-> <<"h", "u", "m", "a", "n", "-", "g", "e", "n", "e">>, cls |-> "HumanGeneSource"],
       [key |-> <<"i", "g", "e", "m", "-", "p", "a", "r", "t">>, cls |-> "iGEMPartSource"],
       [key |-> <<"r", "c", "s", "b">>, cls |-> "RCSBSource"],
       [key |-> <<"u", "n", "i", "p", "r", "o", "t">>, cls |-> "UniProtSource"],
       [key |-> <<"t", "a", "x", "o", "n", "o", "m", "y">>, cls |-> "TaxonomySource"],
       [key |-> <<"g", "e", "n", "e", "-", "e", "x", "p", "r", "-", "p", "r", "o">>, cls |-> "GeneExpressionSourceProfiles"],
       [key |-> <<"g", "e", "n", "e", "-", "e", "x", "p", "r", "-", "d", "a", "t">>, cls |-> "GeneExpressionSourceDatasets"] >>

\* Select without the break: the last matching entry wins
RECURSIVE SelectLast(_, _)
SelectLast(source_name, i) ==
    IF i > Len(Mapping) THEN "none"
    ELSE LET later == SelectLast(source_name, i + 1)
         IN  IF later # "none" THEN later
             ELSE IF StartsWith(Mapping[i].key, source_name) THEN Mapping[i].cls
             ELSE "none"

\* the for loop over mapping.items(), from entry i: the class of the first key that
\* starts with source_name, "none" when the loop ends without break
RECURSIVE Select(_, _)
Select(source_name, i) ==
    IF i > Len(Mapping) THEN "none"
    ELSE IF StartsWith(Mapping[i].key, source_name) THEN Mapping[i].cls
    ELSE Select(source_name, i + 1)

\* the source names tried: every prefix of every key, and each followed by one more character
SourceNames ==
    LET prefixes == UNION {{SubSeq(Mapping[i].key, 1, n) : n \in 0..Len(Mapping[i].key)} : i \in 1..Len(Mapping)}
    IN  prefixes \cup {Append(q, "x") : q \in prefixes}

MainSites == {[db \in Dbs |-> [k \in Keywords |-> t]] : t \in 0..MaxExtra}

MainInit ==
    /\ script = "main"
    /\ argv \in [source_name : SourceNames, keyword : {"k1"}]
    /\ source = "none"
    /\ site \in MainSites
    /\ Fresh

\* select and construct the adapter, or raise RuntimeError('Unknown data source')
Main ==
    /\ script = "main"
    /\ LET v == Select(argv.source_name, 1)
       IN  IF v = "none"
           THEN script' = "fatal" /\ source' = source
           ELSE script' = "count" /\ source' = v
    /\ UNCHANGED <<argv, site, pc, cached_first_soup, cached_ids, op, kw, rng, offset,
                   results, ret, nfetch, iters, req, seen, prevCount, idFetches>>

\* total = source.count(keyword)
MainCount ==
    /\ script = "count"
    /\ LET k == argv.keyword
       IN  PageCount(k) \/ RCSBCount(k) \/ GeoCount(k) \/ NotImplemented("count", k)
    /\ script' = IF pc' = "raised" THEN "error" ELSE "search"

\* results = source.search(keyword, range(0, total))
MainSearch ==
    /\ script = "search"
    /\ LET k == argv.keyword
           r == [start |-> 0, stop |-> ret]
       IN  PageSearchCall(k, r) \/ RCSBSearch(k, r) \/ GeoSearch(k, r)
    /\ script' = "searching"

MainSearching ==
    /\ script = "searching"
    /\ PageSearchIter \/ PageSearchExit
    /\ UNCHANGED script

\* the prints
MainPrint ==
    /\ script = "searching" /\ pc = "idle"
    /\ script' = "done"
    /\ UNCHANGED <<argv, source, site, pc, cached_first_soup, cached_ids, op, kw, rng, offset,
                   results, ret, nfetch, iters, req, seen, prevCount, idFetches>>

MainNext == Main \/ MainCount \/ MainSearch \/ MainSearching \/ MainPrint

MainSpec == MainInit /\ [][MainNext]_vars

----------------------------------------------------------------------------
(* A page-fetching adapter against a site that may answer a GET with any page *)

\* the numbers of rows an answer may hold: none, short, full, more than a full page
AnyLens(step) == {0, 1, step - 1, step, step + 1}

AnyPages(k, start) ==
    {[kw |-> k,
      rows |-> [i \in 1..n |-> <<DbOf(source), k, start + i - 1>>],
      container |-> (n > 0 \/ c),
      total |-> 0] : n \in AnyLens(StepOf(source)), c \in BOOLEAN}

LoopInit ==
    /\ script = "lib"
    /\ argv = [source_name |-> <<>>, keyword |-> "k1"]
    /\ source \in PageSources
    /\ site = NoSite
    /\ Fresh

\* one count at most, then one search: a search leaves the adapter's fields as they
\* were, so this reaches every state the loop can start from
AnyCount ==
    /\ op = "none" /\ UNCHANGED script
    /\ \E k \in Keywords : \E page \in AnyPages(k, 0) : CountWith(k, page)

AnySearchCall ==
    /\ op # "search" /\ UNCHANGED script
    /\ \E k \in Keywords : \E r \in RangesFor(source) : PageSearchCall(k, r)

AnyIter ==
    /\ UNCHANGED script
    /\ \E page \in AnyPages(kw, offset) : IterWith(page)

AnyExit == UNCHANGED script /\ PageSearchExit

LoopNext == AnyCount \/ AnySearchCall \/ AnyIter \/ AnyExit

\* a call that has started runs on: the interpreter keeps executing the loop
LoopSpec == LoopInit /\ [][LoopNext]_vars /\ WF_vars(AnyIter) /\ WF_vars(AnyExit)

----------------------------------------------------------------------------
(* Properties *)

Returned == pc = "idle" /\ op = "search"

\* the result list the site holds for the keyword of the last call
BackingList ==
    Records(IF source \in GeoSources THEN SearchDb(source) ELSE DbOf(source), kw)

\* what search(kw, range(0, count)) returns for a gene-expression adapter, else the backing list
WholeSearch ==
    IF source \in GeoSources THEN get_info(kw, site[CountDb(source)][kw]) ELSE BackingList

Ceil(a, b) == (a + b - 1) \div b

(* C1: slicing consistency. For every adapter that implements search and every range
   0 <= a <= b <= count(keyword), search(keyword, range(a, b)) is the [a:b] slice of
   search(keyword, range(0, count(keyword))): nothing skipped, duplicated, reordered or
   taken from outside [a, b). *)
C1_SlicingConsistency ==
    (Returned /\ rng.stop <= Len(WholeSearch))
        => results = PySlice(WholeSearch, rng.start, rng.stop)

(* C2: cache/keyword invariant. Whatever count and search calls came before on the
   instance, search(k, rng) returns only results of keyword k. *)
C2_ResultsOfOwnKeyword ==
    Returned => \A i \in 1..Len(results) : results[i][2] = kw

(* C3: count/search agreement. Once count(keyword) has returned n, the list
   search(keyword, range(0, n)) returns has n items. *)
C3_CountSearchAgreement ==
    (Returned /\ seen[kw] # NoValue /\ rng = [start |-> 0, stop |-> seen[kw]])
        => Len(results) = seen[kw]

(* C4: count idempotence. A count(keyword) call that follows an earlier count of the
   same keyword on the instance returns the earlier value and issues no network
   request. *)
C4_CountIdempotent ==
    (pc = "idle" /\ op = "count" /\ prevCount # NoValue)
        => (ret = prevCount /\ nfetch = 0)

(* C5: page-fetching trim and clip. A search of a page-fetching adapter never returns
   more than stop - start items; and, the cached first page being the keyword's own or
   absent, it returns exactly max(0, min(stop, M) - start) items, M the length of the
   keyword's backing list. *)
C5_TrimAndClip ==
    (Returned /\ source \in PageSources)
        => /\ Len(results) <= rng.stop - rng.start
           /\ (cached_first_soup = None \/ cached_first_soup.kw = kw)
                => Len(results) = Max(0, Min(rng.stop, Len(BackingList)) - rng.start)

\* a list that is not a whole number of pages, read whole in two page requests
C5_Witness ==
    /\ Returned /\ source \in PageSources
    /\ Len(BackingList) > StepOf(source) /\ Len(BackingList) % StepOf(source) # 0
    /\ rng = [start |-> 0, stop |-> Len(BackingList)]
    /\ iters = 2 /\ Len(results) = Len(BackingList)

(* C6: whole-set cache reuse. On an RCSBSource, the calls made so far for a keyword
   have issued exactly one full-id-list POST, a search returns the slice of the cached
   list, and a cached list never changes once stored. *)
C6_CachedIdsInv ==
    source = "RCSBSource" =>
        /\ op # "none" => idFetches[kw] = 1
        /\ \A k \in Keywords :
              /\ idFetches[k] = (IF k \in DOMAIN cached_ids THEN 1 ELSE 0)
              /\ k \in DOMAIN cached_ids => cached_ids[k] = Records("rcsb", k)
        /\ Returned => results = PySlice(cached_ids[kw], rng.start, rng.stop)

C6_CachedIdsKept ==
    \A k \in DOMAIN cached_ids : k \in DOMAIN cached_ids' /\ cached_ids'[k] = cached_ids[k]

C6_WholeSetCacheReuse == []C6_CachedIdsInv /\ [][C6_CachedIdsKept]_vars

\* a search served from the list an earlier call cached: only the report is requested
C6_Witness ==
    /\ source = "RCSBSource" /\ Returned
    /\ nfetch = 1 /\ idFetches[kw] = 1
    /\ rng.start > 0 /\ Len(results) > 1

(* C7, as stated: the keyword's first page having no results container, search
   returns [] for every range, without raising, after exactly one page fetch. *)
C7_ZeroResultsExactlyOneFetch ==
    (Returned /\ source \in PageSources /\ ~Soupize(kw, 0).container)
        => (results = <<>> /\ nfetch = 1)

(* C7, amended: when the first page search consults (the cached first page if one is
   cached and the range starts at 0, else the page fetched at range.start) has no
   results container, search stops there and returns [] without raising, after at most
   one page fetch: one if the page was fetched, none if it was the cached one. A
   search of an empty range returns [] with no fetch. *)
C7_ZeroResults ==
    (op = "search" /\ source \in PageSources)
        => /\ (pc = "idle" /\ iters = 0) => (results = <<>> /\ nfetch = 0)
           /\ (iters = 1 /\ ~req.page.container)
                => /\ pc = "idle" /\ results = <<>>
                   /\ nfetch = (IF req.fetched THEN 1 ELSE 0)

\* a fetched first page without container
C7_Witness ==
    /\ Returned /\ source \in PageSources
    /\ iters = 1 /\ ~req.page.container /\ req.fetched
    /\ rng.stop > rng.start + StepOf(source)
    /\ results = <<>> /\ nfetch = 1

\* the mapping entries whose key starts with the given source name
Matching == {i \in 1..Len(Mapping) : StartsWith(Mapping[i].key, argv.source_name)}

(* C8: adapter selection of the script. Once the selection has run, the adapter is of
   the class of the first mapping entry, in table order, whose key starts with the
   source name; if there is none the script has ended with the fatal error, no adapter
   was constructed and no count or search call was made. *)
C8_AdapterSelection ==
    script # "main" =>
        IF Matching = {}
        THEN script = "fatal" /\ source = "none" /\ op = "none"
        ELSE /\ script # "fatal"
             /\ source = Mapping[CHOOSE i \in Matching : \A j \in Matching : i <= j].cls

\* a source name that several keys start with, the first of which was taken
C8_Witness ==
    /\ script = "done" /\ Cardinality(Matching) > 1
    /\ Len(argv.source_name) > 1
    /\ source = "GeneExpressionSourceProfiles"

(* C9: first-page cache state machine. Once a count call, or a search call that
   requested a page, has returned, the instance holds a cached first page; and every
   page request of a search at offset 0 is then served from the cache without a
   fetch, while a request at another offset fetches. *)
C9_FirstPageCached ==
    (source \in PageSources /\ pc = "idle" /\ (op = "count" \/ (op = "search" /\ iters > 0)))
        => /\ cached_first_soup # None
           /\ op = "search" => (req.fetched <=> req.start # 0)

(* C10: pagination loop termination. Whatever pages the site returns, a search that
   has entered its loop returns; it makes at most ceil((stop - start) / step) page
   requests; and its offset grows on every iteration that does not break. *)
C10_Bounded ==
    (op = "search" /\ source \in PageSources)
        => iters <= Ceil(rng.stop - rng.start, StepOf(source))

C10_OffsetGrows == (pc = "loop" /\ pc' = "loop" /\ iters' # iters) => offset' > offset

C10_LoopTerminates ==
    /\ []C10_Bounded
    /\ [][C10_OffsetGrows]_vars
    /\ (pc = "loop") ~> (pc = "idle")

\* a search that used all the page requests the bound allows, one of them oversized
C10_Witness ==
    /\ Returned /\ iters = 2
    /\ iters = Ceil(rng.stop - rng.start, StepOf(source))
    /\ Len(req.page.rows) > StepOf(source)

====
